---- MODULE Spec2Model ----
(***************************************************************************)
(* A model of the audio pipeline scripts:                                  *)
(*   scripts/audio_pipeline.py       run_pipeline            (Spec)        *)
(*   scripts/3_pii_redaction.py      transcribe_and_redact   (SpecRedact)  *)
(*   scripts/2_confidence_scoring.py multi_factor_confidence (SpecScore)   *)
(*   scripts/4_tts_summary.py        transcribe_summarize_tts (SpecTts)    *)
(*                                                                         *)
(* Text is a sequence of one-character strings.  Offsets are Python        *)
(* offsets: 0-based, a span (s, e) covers the characters s .. e-1.         *)
(* Numbers are binary64 values, +inf, -inf and NaN, and every operation    *)
(* rounds as Python's does (0.5*1 + 0.3*0.5 + 0.2*1 is                     *)
(* 0.8500000000000001).                                                    *)
(***************************************************************************)
EXTENDS Integers, Sequences, FiniteSets, TLC

VARIABLES
    script,          \* which script's entry point is running
    audio_path,      \* the entry point's argument
    pc,              \* position in that script
    transcript,      \* response.results[0].alternatives[0].transcript
    words,           \* response.results[0].alternatives[0].words
    api_confidence,  \* 2_confidence_scoring: alternatives[0].confidence
    snr,             \* calculate_snr(audio_path)
    score,           \* combined / combined_score
    level,           \* level / confidence_level
    redacted_regex,  \* redacted_regex: the text after the pattern pass
    regex_list,      \* regex_list / redactions_regex
    ner_list,        \* ner_list / redactions_ner
    redacted_text,   \* redacted_final / redacted_text
    redactions,      \* run_pipeline's redactions: regex_list + ner_list
    summ_in,         \* the argument summarize_text was called with
    summary,         \* summarize_text's result
    tts_in,          \* the argument text_to_speech was called with
    files,           \* the files written by the run: name -> content
    log_data,        \* run_pipeline's return value
    trace,           \* the stages called so far, in call order
    failed           \* the function whose exception ended the run, or None

scoreVars == <<words, api_confidence, snr, score, level>>
redactVars ==
    <<redacted_regex, regex_list, ner_list, redacted_text, redactions>>
outVars == <<summ_in, summary, tts_in, files, log_data>>
runVars == <<trace, failed>>
vars == <<script, audio_path, pc, transcript, words, api_confidence, snr,
          score, level, redacted_regex, regex_list, ner_list, redacted_text,
          redactions, summ_in, summary, tts_in, files, log_data, trace,
          failed>>

\* A variable the script has not assigned yet holds None; a text, a list or
\* a number not assigned yet holds a value of its own kind that is no text,
\* list or number.
None == "None"
NoText == <<None>>
NoWords == <<None>>
NoNum == [k |-> "none", s |-> 0, m |-> <<>>, e |-> 0]

(***************************************************************************)
(* Bounds of the model.                                                    *)
(***************************************************************************)
MaxTokens == 3      \* a transcript is at most this many vocabulary tokens
MaxEnts == 2        \* the entity detector returns at most this many spans
MaxWords == 2       \* the recognizer returns at most this many words

\* The audio files the scripts are run on.
AudioPaths == {"input.mp3"}

\* Every script starts with nothing assigned and no file written.
Unassigned ==
    /\ transcript = NoText
    /\ words = NoWords
    /\ api_confidence = NoNum
    /\ snr = NoNum
    /\ score = NoNum
    /\ level = None
    /\ redacted_regex = NoText
    /\ regex_list = <<>>
    /\ ner_list = <<>>
    /\ redacted_text = NoText
    /\ redactions = <<>>
    /\ summ_in = NoText
    /\ summary = NoText
    /\ tts_in = NoText
    /\ files = <<>>
    /\ log_data = None
    /\ trace = <<>>
    /\ failed = None

(***************************************************************************)
(* Characters and the character classes of Python's re (ASCII).            *)
(***************************************************************************)
Digit == {"0", "1", "2", "3", "4", "5", "6", "7", "8", "9"}
Upper == {"A", "B", "C", "D", "E", "F", "G", "H", "I", "J", "K", "L", "M",
          "N", "O", "P", "Q", "R", "S", "T", "U", "V", "W", "X", "Y", "Z"}
Lower == {"a", "b", "c", "d", "e", "f", "g", "h", "i", "j", "k", "l", "m",
          "n", "o", "p", "q", "r", "s", "t", "u", "v", "w", "x", "y", "z"}
\* \w
WordChar == Digit \cup Upper \cup Lower \cup {"_"}
\* \s among the ASCII characters; the vertical tab and the four separators
\* 0x1c .. 0x1f are written as Python's repr writes them.
Space == {" ", "\t", "\n", "\r", "\f", "\\x0b", "\\x1c", "\\x1d", "\\x1e",
          "\\x1f"}

\* text[s:e] for 0 <= s, 0 <= e: Python clamps both ends to len(text).
Slice(text, s, e) ==
    LET n  == Len(text)
        s1 == IF s > n THEN n ELSE s
        e1 == IF e > n THEN n ELSE e
    IN  IF s1 >= e1 THEN <<>> ELSE SubSeq(text, s1 + 1, e1)

\* The character at 0-based offset i, or None outside the text.
CharAt(text, i) == IF i >= 0 /\ i < Len(text) THEN text[i + 1] ELSE None

\* \b at offset i: exactly one of the characters before and after i is \w.
Boundary(text, i) ==
    (CharAt(text, i - 1) \in WordChar) # (CharAt(text, i) \in WordChar)

\* \d{n} at offset i.
DigitsAt(text, i, n) ==
    /\ i + n <= Len(text)
    /\ \A k \in 0 .. (n - 1) : text[i + k + 1] \in Digit

\* [seps]? at offset j, greedy: the offset after it.
OptSep(text, j, seps) == IF CharAt(text, j) \in seps THEN j + 1 ELSE j

\* \d{g1}[seps]?\d{g2}[seps]?...\d{gn} at offset i: the end offset, or -1.
\* An optional separator that is present is always taken: without it the
\* next \d{g} would have to match the separator itself.
RECURSIVE GroupsEnd(_, _, _, _)
GroupsEnd(text, i, groups, seps) ==
    IF ~DigitsAt(text, i, Head(groups)) THEN -1
    ELSE LET j == i + Head(groups)
         IN  IF Len(groups) = 1 THEN j
             ELSE GroupsEnd(text, OptSep(text, j, seps), Tail(groups), seps)

\* \b<digit groups>\b at offset i: the end offset, or -1.
DigitPatternEnd(text, i, groups, seps) ==
    IF ~Boundary(text, i) THEN -1
    ELSE LET e == GroupsEnd(text, i, groups, seps)
         IN  IF e # -1 /\ Boundary(text, e) THEN e ELSE -1

\* The end of the longest run of characters of class cls starting at i.
RECURSIVE RunEnd(_, _, _)
RunEnd(text, i, cls) ==
    IF CharAt(text, i) \in cls THEN RunEnd(text, i + 1, cls) ELSE i

SetMax(S) == CHOOSE x \in S : \A y \in S : y <= x

LocalChars == Upper \cup Lower \cup Digit \cup {".", "_", "%", "+", "-"}
DomainChars == Upper \cup Lower \cup Digit \cup {".", "-"}
\* [A-Z|a-z]: the bar is a member of the class.
TldChars == Upper \cup Lower \cup {"|"}

\* \b[A-Za-z0-9._%+-]+@[A-Za-z0-9.-]+\.[A-Z|a-z]{2,}\b at offset i: the end
\* offset, or -1.  The local part is the whole run before "@".  The domain
\* and the top-level part are greedy with backtracking: the longest domain
\* that a "." and a top-level part can follow, then the longest top-level
\* part of two characters or more that ends at a \b.
EmailEnd(text, i) ==
    LET la == RunEnd(text, i, LocalChars)
    IN  IF ~Boundary(text, i) \/ la = i \/ CharAt(text, la) # "@" THEN -1
        ELSE LET d0   == la + 1
                 dmax == RunEnd(text, d0, DomainChars)
                 TldEnds(k) ==
                     {m \in (k + 3) .. RunEnd(text, k + 1, TldChars) :
                         Boundary(text, m)}
                 Dots == {k \in (d0 + 1) .. (dmax - 1) :
                             CharAt(text, k) = "." /\ TldEnds(k) # {}}
             IN  IF Dots = {} THEN -1 ELSE SetMax(TldEnds(SetMax(Dots)))

\* patterns, in the dict's insertion order.
\* A faulty patterns dict, its keys in the opposite order.
PatternTypes_Reversed == <<"EMAIL", "PHONE", "SSN", "CREDIT_CARD">>

PatternTypes == <<"CREDIT_CARD", "SSN", "PHONE", "EMAIL">>

\* The end offset of pattern t's match at offset i, or -1.
MatchEnd(t, text, i) ==
    CASE t = "CREDIT_CARD" ->
            DigitPatternEnd(text, i, <<4, 4, 4, 4>>, Space \cup {"-"})
      [] t = "SSN" ->
            DigitPatternEnd(text, i, <<3, 2, 4>>, Space \cup {"-"})
      [] t = "PHONE" ->
            DigitPatternEnd(text, i, <<3, 3, 4>>, Space \cup {"-", "."})
      [] t = "EMAIL" -> EmailEnd(text, i)

\* re.finditer(patterns[t], text) from offset pos on: the leftmost match,
\* then the matches after its end.
RECURSIVE FindIter(_, _, _)
FindIter(t, text, pos) ==
    LET starts == {i \in pos .. Len(text) : MatchEnd(t, text, i) # -1}
    IN  IF starts = {} THEN <<>>
        ELSE LET s == CHOOSE i \in starts : \A j \in starts : i <= j
                 e == MatchEnd(t, text, s)
             IN  <<[type |-> t, original |-> Slice(text, s, e),
                    position |-> <<s, e>>]>>
                 \o FindIter(t, text, e)

\* Whether old occurs in text at offset i.
OccursAt(text, old, i) ==
    /\ i >= 0
    /\ i + Len(old) <= Len(text)
    /\ Slice(text, i, i + Len(old)) = old

\* old in text
Contains(text, old) == \E i \in 0 .. Len(text) : OccursAt(text, old, i)

\* text.replace(old, new), old not empty: every occurrence, found left to
\* right, each search starting after the previous occurrence.
RECURSIVE Replace(_, _, _)
Replace(text, old, new) ==
    LET at == {i \in 0 .. Len(text) : OccursAt(text, old, i)}
    IN  IF at = {} THEN text
        ELSE LET i == CHOOSE x \in at : \A y \in at : x <= y
             IN  Slice(text, 0, i) \o new
                 \o Replace(Slice(text, i + Len(old), Len(text)), old, new)

TypeChars ==
    [CREDIT_CARD |-> <<"C", "R", "E", "D", "I", "T", "_", "C", "A", "R", "D">>,
     SSN         |-> <<"S", "S", "N">>,
     PHONE       |-> <<"P", "H", "O", "N", "E">>,
     EMAIL       |-> <<"E", "M", "A", "I", "L">>,
     PERSON      |-> <<"P", "E", "R", "S", "O", "N">>,
     DATE        |-> <<"D", "A", "T", "E">>]

\* f"[REDACTED_{t}]"
Placeholder(t) ==
    <<"[", "R", "E", "D", "A", "C", "T", "E", "D", "_">> \o TypeChars[t]
    \o <<"]">>

\* The matches of every pattern on the original text, pattern by pattern.
RECURSIVE AllMatches(_, _)
AllMatches(types, text) ==
    IF types = <<>> THEN <<>>
    ELSE FindIter(Head(types), text, 0) \o AllMatches(Tail(types), text)

\* A faulty loop body, redacted = text.replace(...): every replacement
\* starts again from the original text, so only the last one is kept.
ReplaceAll_FromText(redacted, matches) ==
    IF matches = <<>> THEN redacted
    ELSE Replace(redacted, matches[Len(matches)].original,
                 Placeholder(matches[Len(matches)].type))

\* The loop body's effect on redacted, over the matches in order.
RECURSIVE ReplaceAll(_, _)
ReplaceAll(redacted, matches) ==
    IF matches = <<>> THEN redacted
    ELSE ReplaceAll(Replace(redacted, Head(matches).original,
                            Placeholder(Head(matches).type)),
                    Tail(matches))

\* redact_pii_regex(text): (redacted, redactions)
redact_pii_regex(text) ==
    LET matches == AllMatches(PatternTypes, text)
    IN  [redacted |-> ReplaceAll(text, matches), redactions |-> matches]

(***************************************************************************)
(* The entity pass.  nlp(text).ents is the external model's answer: a set  *)
(* of labelled spans of the text it was given, no two overlapping.         *)
(***************************************************************************)
Labels == {"PERSON", "DATE", "ORG"}

\* The offsets where a whitespace-delimited word of text starts, and ends.
WordStarts(text) ==
    {i \in 0 .. (Len(text) - 1) :
        CharAt(text, i) \notin Space
        /\ (i = 0 \/ CharAt(text, i - 1) \in Space)}
WordEnds(text) ==
    {e \in 1 .. Len(text) :
        CharAt(text, e - 1) \notin Space
        /\ (e = Len(text) \/ CharAt(text, e) \in Space)}

\* The entities the model may report: runs of whole words, any label.
Entities(text) ==
    {ent \in [label_ : Labels, start_char : WordStarts(text),
              end_char : WordEnds(text)] :
        ent.start_char < ent.end_char}

Overlap(a, b) == a.start_char < b.end_char /\ b.start_char < a.end_char

\* The sets of at most n entities of text, no two overlapping.
RECURSIVE EntitySets(_, _)
EntitySets(text, n) ==
    IF n = 0 THEN {{}}
    ELSE LET P == EntitySets(text, n - 1)
         IN  P \cup UNION {{S \cup {a} :
                               a \in {x \in Entities(text) :
                                        \A y \in S : ~Overlap(x, y)}} :
                            S \in P}

\* doc.ents for nlp(text): what the model may answer.
Docs(text) == EntitySets(text, MaxEnts)

\* sorted(doc.ents, key=lambda e: e.start_char, reverse=True)
RECURSIVE SortedReverse(_)
SortedReverse(ents) ==
    IF ents = {} THEN <<>>
    ELSE LET m == CHOOSE x \in ents :
                      \A y \in ents : y.start_char <= x.start_char
         IN  <<m>> \o SortedReverse(ents \ {m})

\* The loop of redact_pii_ner over the sorted entities; text is the text
\* nlp was given (ent.text is a slice of it), acc the (redacted,
\* redactions) so far.
RECURSIVE NerLoop(_, _, _)
NerLoop(text, sorted, acc) ==
    IF sorted = <<>> THEN acc
    ELSE LET ent == Head(sorted)
             nxt ==
                 IF ent.label_ \in {"PERSON", "DATE"}
                 THEN [redacted |->
                          Slice(acc.redacted, 0, ent.start_char)
                          \o Placeholder(ent.label_)
                          \o Slice(acc.redacted, ent.end_char,
                                   Len(acc.redacted)),
                       redactions |->
                          Append(acc.redactions,
                                 [type |-> ent.label_,
                                  original |-> Slice(text, ent.start_char,
                                                     ent.end_char),
                                  position |-> <<ent.start_char,
                                                 ent.end_char>>])]
                 ELSE acc
         IN  NerLoop(text, Tail(sorted), nxt)

\* redact_pii_ner(text), with ents the answer of nlp(text).
redact_pii_ner(text, ents) ==
    NerLoop(text, SortedReverse(ents),
            [redacted |-> text, redactions |-> <<>>])

\* A faulty redact_pii that returns ner_list + regex_list.
redact_pii_EntityFirst(text, ents) ==
    LET r == redact_pii_regex(text)
        n == redact_pii_ner(r.redacted, ents)
    IN  [redacted |-> n.redacted, redactions |-> n.redactions \o r.redactions]

\* redact_pii(text), with ents the answer of nlp on the pattern pass's text.
redact_pii(text, ents) ==
    LET r == redact_pii_regex(text)
        n == redact_pii_ner(r.redacted, ents)
    IN  [redacted |-> n.redacted, redactions |-> r.redactions \o n.redactions]

(***************************************************************************)
(* The transcripts the recognizer may return: up to MaxTokens tokens of a  *)
(* small vocabulary.                                                       *)
(***************************************************************************)
TokEmail == <<"a", "@", "b", ".", "c", "c">>
TokPhone == <<"5", "5", "5", ".", "1", "2", "3", "-", "4", "5", "6", "7">>
TokSSN == <<"1", "2", "3", "-", "4", "5", "-", "6", "7", "8", "9">>
TokCard == <<"4", "1", "1", "1", "-", "1", "1", "1", "1", "-",
             "1", "1", "1", "1", "1", "1", "1", "1">>
TokName == <<"B", "o", "b">>
TokSpace == <<" ">>
TokStop == <<".", " ">>
TokDash == <<"-">>
TokUnder == <<"_">>

Vocabulary == {TokEmail, TokPhone, TokSSN, TokCard, TokName, TokSpace,
               TokStop, TokDash, TokUnder}

RECURSIVE TextsOf(_)
TextsOf(n) ==
    IF n = 0 THEN {<<>>}
    ELSE LET P == TextsOf(n - 1)
         IN  P \cup {t \o v : t \in P, v \in Vocabulary}

Texts == TextsOf(MaxTokens)

(***************************************************************************)
(* Numbers.  Python's float and numpy's float64 are IEEE 754 binary64:     *)
(* every operation returns the exact result rounded to the nearest value   *)
(* with a 53 bit significand, ties to even.  A finite value is             *)
(* (-1)^s * m * 2^e with m a natural number of any size, kept as its       *)
(* digits in base LimbBase, lowest first, without leading zero digit       *)
(* (<<>> is 0); m is odd or 0, so every value has one representation.      *)
(***************************************************************************)
LimbBits == 15
LimbBase == 2 ^ LimbBits
Precision == 53         \* bits of a binary64 significand
MinExponent == -1074    \* the smallest subnormal is 2^-1074
MaxExponent == 1024     \* every finite value is below 2^1024

Abs(x) == IF x < 0 THEN -x ELSE x
Max2(x, y) == IF x < y THEN y ELSE x
Min2(x, y) == IF x < y THEN x ELSE y

Limb(a, i) == IF i >= 1 /\ i <= Len(a) THEN a[i] ELSE 0

RECURSIVE Trim(_)
Trim(a) ==
    IF a = <<>> \/ a[Len(a)] # 0 THEN a ELSE Trim(SubSeq(a, 1, Len(a) - 1))

RECURSIVE FromNat(_)
FromNat(n) ==
    IF n = 0 THEN <<>> ELSE <<n % LimbBase>> \o FromNat(n \div LimbBase)

RECURSIVE AddCarry(_, _, _, _)
AddCarry(a, b, i, c) ==
    IF i > Len(a) /\ i > Len(b)
    THEN IF c = 0 THEN <<>> ELSE <<c>>
    ELSE LET t == Limb(a, i) + Limb(b, i) + c
         IN  <<t % LimbBase>> \o AddCarry(a, b, i + 1, t \div LimbBase)

BigAdd(a, b) == AddCarry(a, b, 1, 0)

\* a - b for a >= b
RECURSIVE SubBorrow(_, _, _, _)
SubBorrow(a, b, i, c) ==
    IF i > Len(a) THEN <<>>
    ELSE LET t == a[i] - Limb(b, i) - c
         IN  IF t < 0 THEN <<t + LimbBase>> \o SubBorrow(a, b, i + 1, 1)
             ELSE <<t>> \o SubBorrow(a, b, i + 1, 0)

BigSub(a, b) == Trim(SubBorrow(a, b, 1, 0))

\* -1, 0, 1 as a < b, a = b, a > b
RECURSIVE CmpFrom(_, _, _)
CmpFrom(a, b, i) ==
    IF i = 0 THEN 0
    ELSE IF a[i] < b[i] THEN -1
    ELSE IF a[i] > b[i] THEN 1
    ELSE CmpFrom(a, b, i - 1)

BigCmp(a, b) ==
    IF Len(a) < Len(b) THEN -1
    ELSE IF Len(a) > Len(b) THEN 1
    ELSE CmpFrom(a, b, Len(a))

\* a * d for one digit d
RECURSIVE MulLimb(_, _, _, _)
MulLimb(a, d, i, c) ==
    IF i > Len(a)
    THEN IF c = 0 THEN <<>> ELSE <<c>>
    ELSE LET t == a[i] * d + c
         IN  <<t % LimbBase>> \o MulLimb(a, d, i + 1, t \div LimbBase)

ShiftLimbs(a, n) == IF a = <<>> THEN <<>> ELSE [i \in 1 .. n |-> 0] \o a

RECURSIVE BigMul(_, _)
BigMul(a, b) ==
    IF a = <<>> \/ b = <<>> THEN <<>>
    ELSE BigAdd(Trim(MulLimb(a, Head(b), 1, 0)),
                ShiftLimbs(BigMul(a, Tail(b)), 1))

\* a * 2^n
ShL(a, n) ==
    ShiftLimbs(Trim(MulLimb(a, 2 ^ (n % LimbBits), 1, 0)), n \div LimbBits)

\* floor(a / 2^n)
ShR(a, n) ==
    LET k == n \div LimbBits
        r == n % LimbBits
    IN  IF k >= Len(a) THEN <<>>
        ELSE Trim([i \in 1 .. (Len(a) - k) |->
                      (a[i + k] \div (2 ^ r))
                      + (Limb(a, i + k + 1) % (2 ^ r)) * (2 ^ (LimbBits - r))])

RECURSIVE SmallBitLen(_)
SmallBitLen(x) == IF x = 0 THEN 0 ELSE 1 + SmallBitLen(x \div 2)

\* the number of bits of a
BitLen(a) ==
    IF a = <<>> THEN 0
    ELSE LimbBits * (Len(a) - 1) + SmallBitLen(a[Len(a)])

\* bit i of a, bit 0 the lowest
Bit(a, i) ==
    IF i < 0 THEN 0
    ELSE (Limb(a, (i \div LimbBits) + 1) \div (2 ^ (i % LimbBits))) % 2

\* whether the n lowest bits of a are 0
LowZero(a, n) ==
    IF n <= 0 THEN TRUE
    ELSE /\ \A i \in 1 .. Min2(n \div LimbBits, Len(a)) : a[i] = 0
         /\ Limb(a, (n \div LimbBits) + 1) % (2 ^ (n % LimbBits)) = 0

\* the number of zero bits below the lowest 1 of a # 0
RECURSIVE TrailingZeros(_, _)
TrailingZeros(a, i) == IF Bit(a, i) = 1 THEN i ELSE TrailingZeros(a, i + 1)

\* The largest digit d in lo .. hi with b * d <= r, where b * lo <= r.
RECURSIVE QuotientDigit(_, _, _, _)
QuotientDigit(r, b, lo, hi) ==
    IF lo = hi THEN lo
    ELSE LET mid == (lo + hi + 1) \div 2
         IN  IF BigCmp(Trim(MulLimb(b, mid, 1, 0)), r) <= 0
             THEN QuotientDigit(r, b, mid, hi)
             ELSE QuotientDigit(r, b, lo, mid - 1)

\* Long division of the digits i .. Len(a) of a by b # 0, from the highest
\* digit down: <<the quotient's digits, the remainder>>.
RECURSIVE DivDigits(_, _, _)
DivDigits(a, b, i) ==
    IF i > Len(a) THEN <<<<>>, <<>>>>
    ELSE LET prev == DivDigits(a, b, i + 1)
             cur == Trim(<<a[i]>> \o prev[2])
             d == QuotientDigit(cur, b, 0, LimbBase - 1)
         IN  <<<<d>> \o prev[1], BigSub(cur, Trim(MulLimb(b, d, 1, 0)))>>

\* <<floor(a / b), a mod b>> for b # 0
BigDivMod(a, b) ==
    LET qr == DivDigits(a, b, 1)
    IN  <<Trim(qr[1]), qr[2]>>

Zero == [k |-> "fin", s |-> 0, m |-> <<>>, e |-> 0]
Inf == [k |-> "inf", s |-> 0, m |-> <<>>, e |-> 0]
NegInf == [k |-> "inf", s |-> 1, m |-> <<>>, e |-> 0]
NaN == [k |-> "nan", s |-> 0, m |-> <<>>, e |-> 0]

\* (-1)^s * M * 2^E, which is a binary64 value, in its one representation.
Canonical(s, M, E) ==
    IF M = <<>> THEN Zero
    ELSE LET tz == TrailingZeros(M, 0)
         IN  [k |-> "fin", s |-> s, m |-> ShR(M, tz), e |-> E + tz]

\* (-1)^s * R * 2^Eq for a rounded R: an infinity from 2^1024 on.
Finite(s, R, Eq) ==
    IF BitLen(R) + Eq > MaxExponent
    THEN IF s = 0 THEN Inf ELSE NegInf
    ELSE Canonical(s, R, Eq)

\* M / 2^sh for sh > 0, to the nearest integer, ties to even; Mq is
\* M \div 2^sh.
ShRNearest(M, Mq, sh) ==
    IF Bit(M, sh - 1) = 1 /\ (~LowZero(M, sh - 1) \/ Bit(Mq, 0) = 1)
    THEN BigAdd(Mq, <<1>>)
    ELSE Mq

\* (-1)^s * M * 2^E for M # 0, rounded to a multiple of 2^q.
RoundAt(s, M, E, q) ==
    Finite(s, IF q <= E THEN M ELSE ShRNearest(M, ShR(M, q - E), q - E),
           Max2(q, E))

\* The binary64 value nearest to (-1)^s * M * 2^E, ties to even; an
\* infinity from 2^1024 - 2^970 on.
Round(s, M, E) ==
    IF M = <<>> THEN Zero
    ELSE RoundAt(s, M, E, Max2(BitLen(M) + E - Precision, MinExponent))

\* The integer n as a float.
FromInt(n) == Round(IF n < 0 THEN 1 ELSE 0, FromNat(Abs(n)), 0)

XNeg(a) == IF a.k = "nan" \/ (a.k = "fin" /\ a.m = <<>>) THEN a
           ELSE [a EXCEPT !.s = 1 - a.s]

\* The exponent of the highest bit of a finite a # 0, plus 1.
Top(a) == BitLen(a.m) + a.e

\* b, or when |b| is below a quarter of the last bit of a, a value of b's
\* sign that is so too: a + b rounds to the same float with either.
Sticky(a, b) ==
    IF a.m # <<>> /\ b.m # <<>> /\ Top(b) < Top(a) - (Precision + 4)
    THEN [b EXCEPT !.m = <<1>>, !.e = Top(a) - (Precision + 5)]
    ELSE b

\* (-1)^sa * A * 2^e + (-1)^sb * B * 2^e, where c compares A with B
AddSigned(sa, A, sb, B, c, e) ==
    Round(IF sa = sb \/ c >= 0 THEN sa ELSE sb,
          IF sa = sb THEN BigAdd(A, B)
          ELSE IF c >= 0 THEN BigSub(A, B) ELSE BigSub(B, A),
          e)

\* As AddSigned, from the significands at the exponent e.
AddAligned(sa, A, sb, B, e) == AddSigned(sa, A, sb, B, BigCmp(A, B), e)

\* a + b at the exponent e, the lesser of the two
AddAt(a, b, e) ==
    AddAligned(a.s, ShL(a.m, a.e - e), b.s, ShL(b.m, b.e - e), e)

\* a + b for finite a and b whose exponents are close
AddNear(a, b) == AddAt(a, b, Min2(a.e, b.e))

\* x + y for finite x and y
AddFinite(x, y) == AddNear(Sticky(y, x), Sticky(x, y))

\* a + b
XAdd(a, b) ==
    CASE a.k = "nan" \/ b.k = "nan" -> NaN
      [] a.k = "inf" /\ b.k = "inf" -> IF a.s = b.s THEN a ELSE NaN
      [] a.k = "inf" /\ b.k = "fin" -> a
      [] a.k = "fin" /\ b.k = "inf" -> b
      [] OTHER -> AddFinite(a, b)

XSub(a, b) == XAdd(a, XNeg(b))

IsZero(a) == a.k = "fin" /\ a.m = <<>>

\* a * b
XMul(a, b) ==
    CASE a.k = "nan" \/ b.k = "nan" -> NaN
      [] a.k = "inf" \/ b.k = "inf" ->
            IF IsZero(a) \/ IsZero(b) THEN NaN
            ELSE IF a.s = b.s THEN Inf ELSE NegInf
      [] OTHER -> Round((a.s + b.s) % 2, BigMul(a.m, b.m), a.e + b.e)

\* (-1)^s * (qr[1] + qr[2] / b) * 2^E, for the quotient qr[1] of 55 bits
\* or more and the remainder qr[2] of a division by b: the quotient, and
\* one more bit that is 1 when the division is not exact.
DivSticky(s, qr, E) ==
    Round(s,
          IF qr[2] = <<>> THEN qr[1]
          ELSE BigAdd(BigAdd(qr[1], qr[1]), <<1>>),
          IF qr[2] = <<>> THEN E ELSE E - 1)

\* a / b from the significand of a shifted left by k bits
DivAt(a, b, k) ==
    DivSticky((a.s + b.s) % 2, BigDivMod(ShL(a.m, k), b.m), a.e - b.e - k)

\* a / b for finite a and b, b # 0
DivFinite(a, b) ==
    IF a.m = <<>> THEN Zero
    ELSE DivAt(a, b, Max2(0, Precision + 2 + BitLen(b.m) - BitLen(a.m)))

\* a / b for a finite b # 0
XDiv(a, b) ==
    CASE a.k = "nan" -> NaN
      [] a.k = "inf" -> IF a.s = b.s THEN Inf ELSE NegInf
      [] OTHER -> DivFinite(a, b)

\* The float nearest to n/d, d # 0: as the literal 0.3 is to 3/10.
Fin(n, d) == XDiv(FromInt(n), FromInt(d))

\* |a| > |b| for finite a and b
MagGt(a, b) ==
    IF a.m = <<>> THEN FALSE
    ELSE IF b.m = <<>> THEN TRUE
    ELSE IF BitLen(a.m) + a.e # BitLen(b.m) + b.e
         THEN BitLen(a.m) + a.e > BitLen(b.m) + b.e
    ELSE LET e == Min2(a.e, b.e)
         IN  BigCmp(ShL(a.m, a.e - e), ShL(b.m, b.e - e)) > 0

\* a > b: false when either is NaN.
XGt(a, b) ==
    CASE a.k = "nan" \/ b.k = "nan" -> FALSE
      [] a.k = "inf" /\ b.k = "inf" -> a.s < b.s
      [] a.k = "inf" /\ b.k = "fin" -> a.s = 0
      [] a.k = "fin" /\ b.k = "inf" -> b.s = 1
      [] a.s # b.s -> a.s = 0 /\ ~(IsZero(a) /\ IsZero(b))
      [] a.s = 0 -> MagGt(a, b)
      [] OTHER -> MagGt(b, a)

\* Python's max(a, b) and min(a, b): the first argument unless the second
\* is strictly greater (less).
PyMax(a, b) == IF XGt(b, a) THEN b ELSE a
PyMin(a, b) == IF XGt(a, b) THEN b ELSE a

\* The literals of the scoring code.
HalfWeight == Fin(1, 2)         \* 0.5
SnrWeight == Fin(3, 10)         \* 0.3
PerplexityWeight == Fin(1, 5)   \* 0.2
HighAbove == Fin(85, 100)       \* 0.85
MediumAbove == Fin(7, 10)       \* 0.7 and 0.70
One == FromInt(1)
Ten == FromInt(10)
Twenty == FromInt(20)

\* The sum of the confidences as numpy's add.reduce makes it for fewer
\* than nine values: the first one plus the sum, left to right, of the
\* others.
RECURSIVE SumLeft(_, _)
SumLeft(ws, acc) ==
    IF ws = <<>> THEN acc
    ELSE SumLeft(Tail(ws), XAdd(acc, Head(ws).confidence))

SumConf(ws) == XAdd(ws[1].confidence, SumLeft(Tail(ws), Zero))

\* np.mean([w.confidence for w in words]): NaN (and a warning) when empty.
MeanConfidence(ws) ==
    IF ws = <<>> THEN NaN ELSE XDiv(SumConf(ws), FromInt(Len(ws)))

\* A faulty perplexity that is the average confidence itself, not its
\* inverse.
calculate_word_perplexity_NotInverted(ws) ==
    LET avg_conf == MeanConfidence(ws)
    IN  IF XGt(avg_conf, Zero) THEN avg_conf ELSE Inf

\* calculate_word_perplexity(words)
calculate_word_perplexity(ws) ==
    LET avg_conf == MeanConfidence(ws)
    IN  IF XGt(avg_conf, Zero) THEN XDiv(One, avg_conf) ELSE Inf

\* A faulty snr_norm without the upper clamp: max((snr - 10) / 20, 0).
SnrNorm_NoCeiling(snr_db) ==
    PyMax(XDiv(XSub(snr_db, Ten), Twenty), Zero)

\* snr_norm = min(max((snr - 10) / 20, 0), 1)
SnrNorm(snr_db) ==
    PyMin(PyMax(XDiv(XSub(snr_db, Ten), Twenty), Zero), One)

\* perplexity_norm = max(1 - (perplexity - 1), 0)
PerplexityNorm(perplexity) ==
    PyMax(XSub(One, XSub(perplexity, One)), Zero)

\* combined = 0.5*api_conf + 0.3*snr_norm + 0.2*perplexity_norm
Combined(api_conf, snr_norm, perplexity_norm) ==
    XAdd(XAdd(XMul(HalfWeight, api_conf), XMul(SnrWeight, snr_norm)),
         XMul(PerplexityWeight, perplexity_norm))

\* if combined > 0.85: HIGH / elif combined > 0.7: MEDIUM / else: LOW
Level(combined) ==
    IF XGt(combined, HighAbove) THEN "HIGH"
    ELSE IF XGt(combined, MediumAbove) THEN "MEDIUM"
    ELSE "LOW"

\* The levels of 2_confidence_scoring.py start with a coloured circle, a
\* character outside ASCII, written here as Python's ascii() writes it.
Level_2(combined_score) ==
    IF XGt(combined_score, HighAbove) THEN "\\U0001f7e2 HIGH"
    ELSE IF XGt(combined_score, MediumAbove) THEN "\\U0001f7e1 MEDIUM"
    ELSE "\\U0001f534 LOW"

\* audio_pipeline.multi_factor_confidence: api_conf is the words' mean.
multi_factor_confidence(snr_db, ws) ==
    LET perplexity == calculate_word_perplexity(ws)
        api_conf == MeanConfidence(ws)
        snr_norm == SnrNorm(snr_db)
        perplexity_norm == PerplexityNorm(perplexity)
        combined == Combined(api_conf, snr_norm, perplexity_norm)
    IN  [combined |-> combined, level |-> Level(combined)]

\* 2_confidence_scoring.multi_factor_confidence: api_confidence is the
\* recognizer's confidence in the alternative.
multi_factor_confidence_2(api_conf, snr_db, ws) ==
    LET perplexity == calculate_word_perplexity(ws)
        snr_normalized == SnrNorm(snr_db)
        perplexity_normalized == PerplexityNorm(perplexity)
        combined_score ==
            Combined(api_conf, snr_normalized, perplexity_normalized)
    IN  [combined |-> combined_score, level |-> Level_2(combined_score)]

(***************************************************************************)
(* The recognizer's and the audio's values.                                *)
(***************************************************************************)
\* Confidences, in [0, 1].
Confidences == {Fin(0, 1), Fin(1, 4), Fin(1, 2), Fin(3, 4), Fin(1, 1)}

\* calculate_snr's results, in dB: mean(y^2) is at least var(y), so they
\* are 0 or more, and +inf for a signal without variance.
SnrValues == {Fin(0, 1), Fin(301, 100), Fin(10, 1), Fin(15, 1), Fin(18, 1),
              Fin(20, 1), Fin(25, 1), Fin(28, 1), Fin(30, 1), Fin(40, 1),
              Inf}

RECURSIVE WordListsOf(_)
WordListsOf(n) ==
    IF n = 0 THEN {<<>>}
    ELSE LET P == WordListsOf(n - 1)
         IN  P \cup {Append(ws, [confidence |-> c]) :
                        ws \in P, c \in Confidences}

WordLists == WordListsOf(MaxWords)

\* The transcripts of the scoring script's runs.
ScoreTexts == {<<>>, TokName}

(***************************************************************************)
(* 2_confidence_scoring.py: multi_factor_confidence(audio_path).           *)
(***************************************************************************)
InitScore ==
    /\ script = "2_confidence_scoring"
    /\ audio_path \in AudioPaths
    /\ pc = "recognize"
    /\ Unassigned

\* Factor 1: client.recognize, the alternative's confidence and words.
S_Recognize ==
    /\ script = "2_confidence_scoring"
    /\ pc = "recognize"
    /\ \E c \in Confidences : api_confidence' = c
    /\ \E ws \in WordLists : words' = ws
    /\ \E t \in ScoreTexts : transcript' = t
    /\ pc' = "snr"
    /\ UNCHANGED <<script, audio_path, snr, score, level, redactVars, outVars,
                   runVars>>

\* Factor 1 raising: the file cannot be read, the service fails, or the
\* response has no result (IndexError).
S_RecognizeFail ==
    /\ script = "2_confidence_scoring"
    /\ pc = "recognize"
    /\ pc' = "failed"
    /\ failed' = "recognize"
    /\ UNCHANGED <<script, audio_path, transcript, scoreVars, redactVars,
                   outVars, trace>>

\* Factor 2: calculate_snr(audio_path).
S_Snr ==
    /\ script = "2_confidence_scoring"
    /\ pc = "snr"
    /\ \E v \in SnrValues : snr' = v
    /\ pc' = "combine"
    /\ UNCHANGED <<script, audio_path, transcript, words, api_confidence,
                   score, level, redactVars, outVars, runVars>>

\* Factor 2 raising: librosa cannot load the audio.
S_SnrFail ==
    /\ script = "2_confidence_scoring"
    /\ pc = "snr"
    /\ pc' = "failed"
    /\ failed' = "calculate_snr"
    /\ UNCHANGED <<script, audio_path, transcript, scoreVars, redactVars,
                   outVars, trace>>

\* Factor 3, the combined score and the level.
S_Combine ==
    /\ script = "2_confidence_scoring"
    /\ pc = "combine"
    /\ \E r \in {multi_factor_confidence_2(api_confidence, snr, words)} :
          /\ score' = r.combined
          /\ level' = r.level
    /\ pc' = "done"
    /\ UNCHANGED <<script, audio_path, transcript, words, api_confidence, snr,
                   redactVars, outVars, runVars>>

NextScore ==
    \/ S_Recognize \/ S_RecognizeFail
    \/ S_Snr \/ S_SnrFail
    \/ S_Combine

SpecScore == InitScore /\ [][NextScore]_vars

(***************************************************************************)
(* 3_pii_redaction.py: transcribe_and_redact.                              *)
(***************************************************************************)
InitRedact ==
    /\ script = "3_pii_redaction"
    /\ audio_path \in AudioPaths
    /\ pc = "transcribe"
    /\ Unassigned

\* Step 1: client.recognize and the transcript of its first result.
R_Transcribe ==
    /\ script = "3_pii_redaction"
    /\ pc = "transcribe"
    /\ \E t \in Texts : transcript' = t
    /\ pc' = "regex"
    /\ UNCHANGED <<script, audio_path, scoreVars, redactVars, outVars,
                   runVars>>

\* Step 1 raising: the file cannot be read, the service fails, or the
\* response has no result (IndexError).
R_TranscribeFail ==
    /\ script = "3_pii_redaction"
    /\ pc = "transcribe"
    /\ pc' = "failed"
    /\ failed' = "recognize"
    /\ UNCHANGED <<script, audio_path, transcript, scoreVars, redactVars,
                   outVars, trace>>

\* Step 2: redact_pii_regex(transcript).
R_Regex ==
    /\ script = "3_pii_redaction"
    /\ pc = "regex"
    /\ LET r == redact_pii_regex(transcript)
       IN  /\ redacted_regex' = r.redacted
           /\ regex_list' = r.redactions
    /\ pc' = "ner"
    /\ UNCHANGED <<script, audio_path, transcript, scoreVars, ner_list,
                   redacted_text, redactions, outVars, runVars>>

\* Step 3: redact_pii_ner(redacted_regex), the summary and the return.
R_Ner ==
    /\ script = "3_pii_redaction"
    /\ pc = "ner"
    /\ \E ents \in Docs(redacted_regex) :
          LET n == redact_pii_ner(redacted_regex, ents)
          IN  /\ redacted_text' = n.redacted
              /\ ner_list' = n.redactions
    /\ pc' = "done"
    /\ UNCHANGED <<script, audio_path, transcript, scoreVars, redacted_regex,
                   regex_list, redactions, outVars, runVars>>

\* Step 3 raising: the nlp model fails inside redact_pii_ner, after the
\* pattern pass.
R_NerFail ==
    /\ script = "3_pii_redaction"
    /\ pc = "ner"
    /\ pc' = "failed"
    /\ failed' = "redact_pii_ner"
    /\ UNCHANGED <<script, audio_path, transcript, scoreVars, redactVars,
                   outVars, trace>>

NextRedact ==
    R_Transcribe \/ R_TranscribeFail \/ R_Regex \/ R_Ner \/ R_NerFail

SpecRedact == InitRedact /\ [][NextRedact]_vars

(***************************************************************************)
(* audio_pipeline.py: summarize_text and run_pipeline.                     *)
(***************************************************************************)
\* text.split(sep), sep not empty: cut at each occurrence of sep, found
\* left to right, each search starting after the previous occurrence.
RECURSIVE Split(_, _)
Split(text, sep) ==
    LET at == {i \in 0 .. Len(text) : OccursAt(text, sep, i)}
    IN  IF at = {} THEN <<text>>
        ELSE LET i == CHOOSE x \in at : \A y \in at : x <= y
             IN  <<Slice(text, 0, i)>>
                 \o Split(Slice(text, i + Len(sep), Len(text)), sep)

\* sep.join(parts)
RECURSIVE Join(_, _)
Join(parts, sep) ==
    IF parts = <<>> THEN <<>>
    ELSE IF Len(parts) = 1 THEN Head(parts)
    ELSE Head(parts) \o sep \o Join(Tail(parts), sep)

\* summarize_text(text, max_sentences)
summarize_text(text, max_sentences) ==
    LET sentences == Split(text, <<".", " ">>)
        joined == Join(SubSeq(sentences, 1,
                              IF max_sentences < Len(sentences)
                              THEN max_sentences ELSE Len(sentences)),
                       <<".", " ">>)
    IN  IF joined # <<>> /\ joined[Len(joined)] = "."
        THEN joined ELSE joined \o <<".">>

\* The transcripts, the audio quality and the stages of the pipeline's runs.
PipelineTexts ==
    {<<>>,
     TokSSN,
     TokName \o TokSpace \o TokPhone,
     TokEmail \o TokStop \o TokName,
     TokName \o TokStop \o TokName \o TokStop \o TokName,
     TokEmail \o TokSpace \o TokPhone \o TokDash \o TokEmail}

PipelineSnr == {Fin(0, 1), Fin(20, 1), Fin(25, 1), Inf}

Stages == <<"transcribe", "score", "redact", "summarize", "tts", "log">>

\* with open(name, "w") as f: f.write(content)
Write(fs, name, content) == (name :> content) @@ fs

Init ==
    /\ script = "audio_pipeline"
    /\ audio_path \in AudioPaths
    /\ pc = "transcribe"
    /\ Unassigned

\* An exception in a stage leaves run_pipeline: nothing after it runs.
\* failed names what raised.
Raise(stage, what) ==
    /\ pc' = "failed"
    /\ failed' = what
    /\ trace' = Append(trace, stage)

\* Step 1: transcribe_audio(audio_path), then raw_transcript.txt.
P_Transcribe ==
    /\ script = "audio_pipeline"
    /\ pc = "transcribe"
    /\ \E t \in PipelineTexts : transcript' = t
    /\ \E ws \in WordLists : words' = ws
    /\ files' = Write(files, "raw_transcript.txt", transcript')
    /\ trace' = Append(trace, "transcribe")
    /\ pc' = "score"
    /\ UNCHANGED <<script, audio_path, api_confidence, snr, score, level,
                   redactVars, summ_in, summary, tts_in, log_data, failed>>

\* Step 1 raising: the file cannot be read, the service fails, or the
\* response has no result.
P_TranscribeFail ==
    /\ script = "audio_pipeline"
    /\ pc = "transcribe"
    /\ Raise("transcribe", "transcribe_audio")
    /\ UNCHANGED <<script, audio_path, transcript, scoreVars, redactVars,
                   outVars>>

\* Step 2: multi_factor_confidence(audio_path, transcript, words).
P_Score ==
    /\ script = "audio_pipeline"
    /\ pc = "score"
    /\ \E v \in PipelineSnr :
          /\ snr' = v
          /\ \E r \in {multi_factor_confidence(v, words)} :
                /\ score' = r.combined
                /\ level' = r.level
    /\ trace' = Append(trace, "score")
    /\ pc' = "redact"
    /\ UNCHANGED <<script, audio_path, transcript, words, api_confidence,
                   redactVars, outVars, failed>>

\* Step 2 raising: librosa cannot load the audio.
P_ScoreFail ==
    /\ script = "audio_pipeline"
    /\ pc = "score"
    /\ Raise("score", "calculate_snr")
    /\ UNCHANGED <<script, audio_path, transcript, scoreVars, redactVars,
                   outVars>>

\* Step 3: redact_pii(transcript), then output_transcript.txt.
P_Redact ==
    /\ script = "audio_pipeline"
    /\ pc = "redact"
    /\ \E r \in {redact_pii_regex(transcript)} :
          \E ents \in Docs(r.redacted) :
             \E n \in {redact_pii_ner(r.redacted, ents)},
                both \in {redact_pii(transcript, ents)} :
                /\ redacted_regex' = r.redacted
                /\ regex_list' = r.redactions
                /\ ner_list' = n.redactions
                /\ redacted_text' = both.redacted
                /\ redactions' = both.redactions
    /\ files' = Write(files, "output_transcript.txt", redacted_text')
    /\ trace' = Append(trace, "redact")
    /\ pc' = "summarize"
    /\ UNCHANGED <<script, audio_path, transcript, scoreVars, summ_in,
                   summary, tts_in, log_data, failed>>

\* A faulty step 3 that, when the nlp model fails, falls back on the text
\* of the pattern pass, writes it and goes on.
P_RedactFail_Partial ==
    /\ script = "audio_pipeline"
    /\ pc = "redact"
    /\ LET r == redact_pii_regex(transcript)
       IN  /\ redacted_regex' = r.redacted
           /\ regex_list' = r.redactions
           /\ redacted_text' = r.redacted
           /\ redactions' = r.redactions
    /\ failed' = "redact_pii_ner"
    /\ files' = Write(files, "output_transcript.txt", redacted_text')
    /\ trace' = Append(trace, "redact")
    /\ pc' = "summarize"
    /\ UNCHANGED <<script, audio_path, transcript, scoreVars, ner_list,
                   summ_in, summary, tts_in, log_data>>

\* Step 3 raising: inside redact_pii the pattern pass has returned
\* redacted_regex and regex_list, and the nlp model fails in redact_pii_ner;
\* redact_pii then returns nothing.  The pattern pass itself, re.finditer
\* and str.replace on a str, has nothing that raises.
P_RedactFail ==
    /\ script = "audio_pipeline"
    /\ pc = "redact"
    /\ \E r \in {redact_pii_regex(transcript)} :
          /\ redacted_regex' = r.redacted
          /\ regex_list' = r.redactions
    /\ Raise("redact", "redact_pii_ner")
    /\ UNCHANGED <<script, audio_path, transcript, scoreVars, ner_list,
                   redacted_text, redactions, outVars>>

\* A faulty step 4 that summarizes the raw transcript.
P_Summarize_Raw ==
    /\ script = "audio_pipeline"
    /\ pc = "summarize"
    /\ summ_in' = transcript
    /\ summary' = summarize_text(summ_in', 2)
    /\ trace' = Append(trace, "summarize")
    /\ pc' = "tts"
    /\ UNCHANGED <<script, audio_path, transcript, scoreVars, redactVars,
                   tts_in, files, log_data, failed>>

\* Step 4: summarize_text(redacted_text, max_sentences=2).
P_Summarize ==
    /\ script = "audio_pipeline"
    /\ pc = "summarize"
    /\ summ_in' = redacted_text
    /\ summary' = summarize_text(summ_in', 2)
    /\ trace' = Append(trace, "summarize")
    /\ pc' = "tts"
    /\ UNCHANGED <<script, audio_path, transcript, scoreVars, redactVars,
                   tts_in, files, log_data, failed>>

\* Step 5: text_to_speech(summary, "output_summary.mp3"); the audio written
\* is the speech for the text it was given.
P_Tts ==
    /\ script = "audio_pipeline"
    /\ pc = "tts"
    /\ tts_in' = summary
    /\ files' = Write(files, "output_summary.mp3", tts_in')
    /\ trace' = Append(trace, "tts")
    /\ pc' = "log"
    /\ UNCHANGED <<script, audio_path, transcript, scoreVars, redactVars,
                   summ_in, summary, log_data, failed>>

\* Step 5 raising: text_to_speech is called with the summary, and the
\* synthesis service fails before the file is written.
P_TtsFail ==
    /\ script = "audio_pipeline"
    /\ pc = "tts"
    /\ tts_in' = summary
    /\ Raise("tts", "text_to_speech")
    /\ UNCHANGED <<script, audio_path, transcript, scoreVars, redactVars,
                   summ_in, summary, files, log_data>>

\* Step 6: log_data, audit.log, and the return.
P_Log ==
    /\ script = "audio_pipeline"
    /\ pc = "log"
    /\ log_data' = [audio_file |-> audio_path,
                    transcript_file |-> "raw_transcript.txt",
                    redacted_transcript_file |-> "output_transcript.txt",
                    summary_audio_file |-> "output_summary.mp3",
                    confidence_score |-> score,
                    confidence_level |-> level,
                    redactions |-> redactions,
                    summary_text |-> summary]
    /\ files' = Write(files, "audit.log", log_data')
    /\ trace' = Append(trace, "log")
    /\ pc' = "done"
    /\ UNCHANGED <<script, audio_path, transcript, scoreVars, redactVars,
                   summ_in, summary, tts_in, failed>>

Next ==
    \/ P_Transcribe \/ P_TranscribeFail
    \/ P_Score \/ P_ScoreFail
    \/ P_Redact \/ P_RedactFail
    \/ P_Summarize
    \/ P_Tts \/ P_TtsFail
    \/ P_Log

Spec == Init /\ [][Next]_vars

(***************************************************************************)
(* 4_tts_summary.py: transcribe_summarize_tts(audio_path), which           *)
(* summarizes the transcript as recognized.                                *)
(***************************************************************************)
InitTts ==
    /\ script = "4_tts_summary"
    /\ audio_path \in AudioPaths
    /\ pc = "transcribe"
    /\ Unassigned

\* Step 1: speech_client.recognize and the transcript of its first result.
T_Transcribe ==
    /\ script = "4_tts_summary"
    /\ pc = "transcribe"
    /\ \E t \in PipelineTexts : transcript' = t
    /\ pc' = "summarize"
    /\ UNCHANGED <<script, audio_path, scoreVars, redactVars, outVars,
                   runVars>>

\* Step 1 raising: the file cannot be read, the service fails, or the
\* response has no result (IndexError).
T_TranscribeFail ==
    /\ script = "4_tts_summary"
    /\ pc = "transcribe"
    /\ pc' = "failed"
    /\ failed' = "recognize"
    /\ UNCHANGED <<script, audio_path, transcript, scoreVars, redactVars,
                   outVars, trace>>

\* Step 2: summarize_text(transcript, max_sentences=2).
T_Summarize ==
    /\ script = "4_tts_summary"
    /\ pc = "summarize"
    /\ summ_in' = transcript
    /\ summary' = summarize_text(summ_in', 2)
    /\ pc' = "tts"
    /\ UNCHANGED <<script, audio_path, transcript, scoreVars, redactVars,
                   tts_in, files, log_data, runVars>>

\* Step 3: text_to_speech(summary), which writes output_summary.mp3.
T_Tts ==
    /\ script = "4_tts_summary"
    /\ pc = "tts"
    /\ tts_in' = summary
    /\ files' = Write(files, "output_summary.mp3", tts_in')
    /\ pc' = "done"
    /\ UNCHANGED <<script, audio_path, transcript, scoreVars, redactVars,
                   summ_in, summary, log_data, runVars>>

\* Step 3 raising: text_to_speech is called with the summary, and the
\* synthesis service fails before the file is written.
T_TtsFail ==
    /\ script = "4_tts_summary"
    /\ pc = "tts"
    /\ tts_in' = summary
    /\ pc' = "failed"
    /\ failed' = "text_to_speech"
    /\ UNCHANGED <<script, audio_path, transcript, scoreVars, redactVars,
                   summ_in, summary, files, log_data, trace>>

NextTts ==
    \/ T_Transcribe \/ T_TranscribeFail
    \/ T_Summarize
    \/ T_Tts \/ T_TtsFail

SpecTts == InitTts /\ [][NextTts]_vars

(***************************************************************************)
(* Properties.                                                             *)
(***************************************************************************)
PatternTypeSet == {"CREDIT_CARD", "SSN", "PHONE", "EMAIL"}
EntityTypeSet == {"PERSON", "DATE"}

\* No two entries of a ledger cover a common character.
NonOverlapping(list) ==
    \A i, j \in 1 .. Len(list) :
        i # j => \/ list[i].position[2] <= list[j].position[1]
                 \/ list[j].position[2] <= list[i].position[1]

\* The sum over a ledger of len(placeholder) - len(match).
RECURSIVE SumDelta(_)
SumDelta(list) ==
    IF list = <<>> THEN 0
    ELSE Len(Placeholder(Head(list).type)) - Len(Head(list).original)
         + SumDelta(Tail(list))

\* Every replacement of the entity pass, replayed from its ledger on the
\* text the pass was given, uses offsets within the text it is applied to.
RECURSIVE OffsetsInBounds(_, _)
OffsetsInBounds(current, list) ==
    IF list = <<>> THEN TRUE
    ELSE LET s == Head(list).position[1]
             e == Head(list).position[2]
         IN  /\ 0 <= s /\ s <= e /\ e <= Len(current)
             /\ OffsetsInBounds(Slice(current, 0, s)
                                \o Placeholder(Head(list).type)
                                \o Slice(current, e, Len(current)),
                                Tail(list))

PatternPassDone == redacted_regex # NoText
EntityPassDone == redacted_text # NoText

\* C1: after the pattern pass, when its matches do not overlap each other,
\* the text it returns contains no occurrence of any substring recorded as
\* a match.
C1_NoMatchedSubstringRemains ==
    (PatternPassDone /\ NonOverlapping(regex_list)) =>
        \A k \in 1 .. Len(regex_list) :
            ~Contains(redacted_regex, regex_list[k].original)

\* C1's case: the pattern pass has recorded two matches of different
\* categories that do not overlap, and replaced both.
C1_Witness ==
    /\ PatternPassDone
    /\ NonOverlapping(regex_list)
    /\ Len(regex_list) = 2
    /\ regex_list[1].type # regex_list[2].type
    /\ Contains(redacted_regex, Placeholder(regex_list[1].type))
    /\ Contains(redacted_regex, Placeholder(regex_list[2].type))

\* C2 as stated: each pass changes the length of its text by the sum over
\* the spans it recorded of len(placeholder) - len(match), and no
\* replacement uses an offset outside the text it is applied to.
C2_LengthBySpans ==
    /\ PatternPassDone =>
          Len(redacted_regex) = Len(transcript) + SumDelta(regex_list)
    /\ EntityPassDone =>
          /\ Len(redacted_text) = Len(redacted_regex) + SumDelta(ner_list)
          /\ OffsetsInBounds(redacted_regex, ner_list)

\* C3: in redact_pii's ledger every pattern entry precedes every entity
\* entry, whatever their offsets.
C3_PatternBeforeEntity ==
    \A i, j \in 1 .. Len(redactions) :
        (redactions[i].type \in PatternTypeSet
         /\ redactions[j].type \in EntityTypeSet) => i < j

\* C3's case: the ledger holds a pattern entry and an entity entry, and the
\* entity's span starts before the pattern's.
C3_Witness ==
    \E i, j \in 1 .. Len(redactions) :
        /\ redactions[i].type \in PatternTypeSet
        /\ redactions[j].type \in EntityTypeSet
        /\ redactions[j].position[1] < redactions[i].position[1]

ScoreCalled == Len(trace) >= 2

\* C4 as stated: with an empty word list, confidence scoring fails and
\* returns no score and no level.
C4_EmptyWordsFail ==
    (script = "audio_pipeline" /\ ScoreCalled /\ words = <<>>) =>
        /\ pc = "failed"
        /\ score = NoNum
        /\ level = None

\* No stage occurs twice among the stages called.
NoStageTwice ==
    \A i, j \in 1 .. Len(trace) : i # j => trace[i] # trace[j]

\* C5 as stated: when a stage has failed, the run has written none of its
\* output files and has called no stage twice.
C5_NoPartialOutput ==
    failed # None => (DOMAIN files = {} /\ NoStageTwice)

\* C6: when a detector fails inside redact_pii, the redaction returns no
\* text and no ledger, not even those of the pattern pass, the run ends
\* there, and output_transcript.txt is not written.
C6_DetectorFailureAborts ==
    failed \in {"redact_pii_regex", "redact_pii_ner"} =>
        /\ redacted_text = NoText
        /\ redactions = <<>>
        /\ pc = "failed"
        /\ trace[Len(trace)] = "redact"
        /\ "output_transcript.txt" \notin DOMAIN files

\* C6's case: the entity detector has failed after the pattern pass had
\* replaced a match of the transcript and recorded it.
C6_Witness ==
    /\ failed = "redact_pii_ner"
    /\ "raw_transcript.txt" \in DOMAIN files
    /\ regex_list # <<>>
    /\ redacted_regex # NoText
    /\ redacted_regex # transcript

\* a <= b, for numbers that are not NaN.
XLeq(a, b) == a.k # "nan" /\ b.k # "nan" /\ ~XGt(a, b)

\* The three levels, as either script writes them.
IsHigh(l) == l \in {"HIGH", "\\U0001f7e2 HIGH"}
IsMedium(l) == l \in {"MEDIUM", "\\U0001f7e1 MEDIUM"}
IsLow(l) == l \in {"LOW", "\\U0001f534 LOW"}

\* C7 as stated: HIGH exactly when combined > 0.85, MEDIUM exactly when
\* 0.70 < combined <= 0.85, LOW exactly when combined <= 0.70.
C7_LevelThresholds ==
    level # None =>
        /\ IsHigh(level) <=> XGt(score, HighAbove)
        /\ IsMedium(level) <=>
              (XGt(score, MediumAbove) /\ XLeq(score, HighAbove))
        /\ IsLow(level) <=> XLeq(score, MediumAbove)

Scored == script = "2_confidence_scoring" /\ pc = "done"

InUnit(x) == XLeq(Fin(0, 1), x) /\ XLeq(x, Fin(1, 1))

\* The scoring functions on every input of the model, computed once.
MeanOf == [ws \in WordLists |-> MeanConfidence(ws)]
SnrNormOf == [v \in SnrValues |-> SnrNorm(v)]
PerplexityNormOf ==
    [ws \in WordLists |-> PerplexityNorm(calculate_word_perplexity(ws))]
CombinedOf ==
    [a \in Confidences |-> [v \in SnrValues |-> [ws \in WordLists |->
        Combined(a, SnrNormOf[v], PerplexityNormOf[ws])]]]
PipelineCombinedOf ==
    [v \in SnrValues |-> [ws \in WordLists |->
        Combined(MeanOf[ws], SnrNormOf[v], PerplexityNormOf[ws])]]

InStageOrder ==
    /\ Len(trace) <= Len(Stages)
    /\ \A i \in 1 .. Len(trace) : trace[i] = Stages[i]

\* C10: the stages are called in the fixed order; a stage is called only
\* after the one before it has returned its result; summarization is given
\* the redacted text and synthesis the summary of it; the audit record is
\* written last, after the five stages before it.
C10_StageOrder ==
    /\ InStageOrder
    /\ failed # None => (pc = "failed" /\ Len(trace) < Len(Stages))
    /\ Len(trace) >= 2 =>
          /\ transcript # NoText
          /\ "raw_transcript.txt" \in DOMAIN files
    /\ Len(trace) >= 3 => level # None
    /\ Len(trace) >= 4 =>
          /\ EntityPassDone
          /\ "output_transcript.txt" \in DOMAIN files
          /\ summ_in = redacted_text
    /\ Len(trace) >= 5 =>
          /\ summary = summarize_text(redacted_text, 2)
          /\ failed = None => tts_in = summary
    /\ "audit.log" \in DOMAIN files =>
          /\ trace = Stages
          /\ failed = None
          /\ DOMAIN files = {"raw_transcript.txt", "output_transcript.txt",
                             "output_summary.mp3", "audit.log"}

\* C10's case: a complete run whose redaction changed the transcript.
C10_Witness ==
    /\ pc = "done"
    /\ "audit.log" \in DOMAIN files
    /\ redacted_text # transcript
    /\ regex_list # <<>>
    /\ ner_list # <<>>


\* The snapshot with the character range [start, end) of every entry of a
\* ledger replaced by the entry's placeholder, applied from the highest
\* start offset down, and every other character kept.
RECURSIVE ApplySpans(_, _)
ApplySpans(snapshot, list) ==
    IF list = <<>> THEN snapshot
    ELSE LET k == CHOOSE i \in 1 .. Len(list) :
                      \A j \in 1 .. Len(list) :
                          list[j].position[1] <= list[i].position[1]
             rest == [i \in 1 .. (Len(list) - 1) |->
                         IF i < k THEN list[i] ELSE list[i + 1]]
         IN  ApplySpans(Slice(snapshot, 0, list[k].position[1])
                        \o Placeholder(list[k].type)
                        \o Slice(snapshot, list[k].position[2],
                                 Len(snapshot)),
                        rest)

\* Every entry of a ledger records the characters of text at its offsets.
RecordedFrom(text, list) ==
    \A k \in 1 .. Len(list) :
        /\ 0 <= list[k].position[1]
        /\ list[k].position[2] <= Len(text)
        /\ list[k].original
              = Slice(text, list[k].position[1], list[k].position[2])

\* C11 as stated: the text a pass returns is its snapshot with exactly the
\* range [start, end) of each span it recorded replaced by the placeholder
\* (the pattern pass on the original text, for matches that do not overlap;
\* the entity pass on the text of the pattern pass), and the entity
\* detector's spans are spans of the pattern pass's text.
C11_OffsetReplacement ==
    /\ (PatternPassDone /\ NonOverlapping(regex_list)) =>
          /\ RecordedFrom(transcript, regex_list)
          /\ redacted_regex = ApplySpans(transcript, regex_list)
    /\ EntityPassDone =>
          /\ RecordedFrom(redacted_regex, ner_list)
          /\ redacted_text = ApplySpans(redacted_regex, ner_list)

\* The entity pass alone: what it returns is the pattern pass's text with
\* exactly the recorded entity ranges replaced.
C11_EntityPassOnly ==
    EntityPassDone =>
        /\ RecordedFrom(redacted_regex, ner_list)
        /\ redacted_text = ApplySpans(redacted_regex, ner_list)


\* The categories of the pattern pass, highest priority first.
Priority == <<"CREDIT_CARD", "SSN", "PHONE", "EMAIL">>
Rank(t) == CHOOSE r \in 1 .. Len(Priority) : Priority[r] = t

IsPattern(entry) == entry.type \in PatternTypeSet
IsEntity(entry) == entry.type \in EntityTypeSet

\* C12: in the ledger returned by redact_pii the pattern entries stand in
\* category priority order (CREDIT_CARD, SSN, PHONE, EMAIL) and, within a
\* category, in ascending start offset; every match of every category on
\* the original text is recorded, whatever the other categories matched;
\* the entity entries carry only the labels PERSON and DATE and stand in
\* descending start offset.
C12_LedgerOrder ==
    (script = "audio_pipeline" /\ EntityPassDone) =>
        /\ \A i \in 1 .. Len(redactions) :
              IsPattern(redactions[i]) \/ IsEntity(redactions[i])
        /\ \A i, j \in 1 .. Len(redactions) :
              (i < j /\ IsPattern(redactions[i]) /\ IsPattern(redactions[j]))
                  => \/ Rank(redactions[i].type) < Rank(redactions[j].type)
                     \/ /\ redactions[i].type = redactions[j].type
                        /\ redactions[i].position[2]
                              <= redactions[j].position[1]
        /\ \A i \in 1 .. Len(redactions) :
              IsPattern(redactions[i]) =>
                  /\ MatchEnd(redactions[i].type, transcript,
                              redactions[i].position[1])
                        = redactions[i].position[2]
                  /\ redactions[i].original
                        = Slice(transcript, redactions[i].position[1],
                                redactions[i].position[2])
        /\ \A t \in PatternTypeSet : \A o \in 0 .. Len(transcript) :
              MatchEnd(t, transcript, o) # -1 =>
                  \E i \in 1 .. Len(redactions) :
                      /\ redactions[i].type = t
                      /\ redactions[i].position[1] <= o
                      /\ o < redactions[i].position[2]
        /\ \A i, j \in 1 .. Len(redactions) :
              (i < j /\ IsEntity(redactions[i]) /\ IsEntity(redactions[j]))
                  => redactions[i].position[1] > redactions[j].position[1]

\* C12's case: a ledger where a pattern entry of a higher category stands
\* before one of a lower category that starts earlier in the text, two
\* entries of different categories cover a common character, one category
\* has two entries, and the detector has labelled two spans of the pattern
\* pass's text.
C12_Witness ==
    /\ script = "audio_pipeline"
    /\ EntityPassDone
    /\ \E i, j \in 1 .. Len(redactions) :
          /\ i < j
          /\ IsPattern(redactions[i]) /\ IsPattern(redactions[j])
          /\ redactions[i].type # redactions[j].type
          /\ redactions[j].position[1] < redactions[i].position[1]
    /\ \E i, j \in 1 .. Len(redactions) :
          /\ IsPattern(redactions[i]) /\ IsPattern(redactions[j])
          /\ redactions[i].type # redactions[j].type
          /\ redactions[i].position[1] < redactions[j].position[2]
          /\ redactions[j].position[1] < redactions[i].position[2]
    /\ \E i, j \in 1 .. Len(redactions) :
          /\ i < j
          /\ IsPattern(redactions[i])
          /\ redactions[i].type = redactions[j].type
    /\ \E i, j \in 1 .. Len(redactions) :
          /\ i < j
          /\ IsEntity(redactions[i]) /\ IsEntity(redactions[j])

====
